---- MODULE Spec2Model ----
(***************************************************************************)
(* QualSteam Analytics dashboard (app.py): cached CSV loader, key-metrics  *)
(* row, four-panel chart composer and the script that ties them together.  *)
(***************************************************************************)
EXTENDS Integers, Sequences, FiniteSets, TLC

(* ------------------------------ bounds --------------------------------- *)
\* longest table (number of data rows) drawn as an input
MaxRows == 2
\* number of script runs (scenario selections) in one process
MaxRuns == 2
\* number of times the environment rewrites a data file during the session
MaxFsChanges == 2

(* ------------------------- configuration ------------------------------- *)
DATA_FILES ==
  [s \in {"Scenario 1", "Scenario 2", "Scenario 3", "Scenario 4"} |->
     CASE s = "Scenario 1" -> "data/df_1_cleaned.csv"
       [] s = "Scenario 2" -> "data/df_2_cleaned.csv"
       [] s = "Scenario 3" -> "data/df_3_cleaned.csv"
       [] s = "Scenario 4" -> "data/df_4_cleaned.csv"]

Scenarios == DOMAIN DATA_FILES

FilePaths == {DATA_FILES[s] : s \in Scenarios}

COLS ==
  [timestamp  |-> "Timestamp",
   temp_sp    |-> "Process Temp SP",
   temp_pv    |-> "Process Temp",
   steam_flow |-> "Steam Flow Rate",
   valve_out  |-> "QualSteam Valve Opening",
   p1         |-> "Inlet Steam Pressure",
   p2         |-> "Outlet Steam Pressure",
   p2_sp      |-> "Pressure SP"]

\* the numeric signal columns (every label of COLS but the timestamp)
SignalCols ==
  {COLS.temp_sp, COLS.temp_pv, COLS.steam_flow, COLS.valve_out,
   COLS.p1, COLS.p2, COLS.p2_sp}

AllCols == SignalCols \cup {COLS.timestamp}

(* --------------------------- input data -------------------------------- *)
\* One logged sample: a value for every signal column.  A table holds the
\* values of the columns it has; the others are dropped.
MkSample(tsp, tpv, flow, valve, pin, pout, psp) ==
  [c \in SignalCols |->
     CASE c = COLS.temp_sp    -> tsp
       [] c = COLS.temp_pv    -> tpv
       [] c = COLS.steam_flow -> flow
       [] c = COLS.valve_out  -> valve
       [] c = COLS.p1         -> pin
       [] c = COLS.p2         -> pout
       [] c = COLS.p2_sp      -> psp]

Samples ==
  { MkSample(80, 78, 600, 40, 7, 3, 3),
    MkSample(80, 81, 30, 100, 6, 4, 3),
    MkSample(85, 84, 300, 0, 7, 2, 3) }

\* timestamp cells after pd.to_datetime (in a file: "ok", "empty" or "bad")
ParsedTs == {"dt", "NaT"}

Row(tsSet) == [ts : tsSet, s : Samples]

RECURSIVE SeqsUpTo(_, _)
SeqsUpTo(S, n) ==
  IF n = 0 THEN {<<>>}
  ELSE LET shorter == SeqsUpTo(S, n - 1)
       IN  shorter \cup {Append(q, x) : q \in {r \in shorter : Len(r) = n - 1}, x \in S}

\* a DataFrame: the set of column labels and the rows
DataFrame(cols, rows) == [columns |-> cols, rows |-> rows]

(* ------------------------------ results -------------------------------- *)
\* outcome of a call: a value, the None sentinel, or a raised exception
Ok(v)      == [tag |-> "ok", val |-> v]
None       == [tag |-> "none"]
Raise(exc) == [tag |-> "raise", exc |-> exc]

\* a formatted metric: a number (in the unit of its format), nan, or "N/A"
Num(v) == [kind |-> "num", val |-> v]
NaN    == [kind |-> "nan", val |-> 0]
NA     == [kind |-> "N/A", val |-> 0]

(* --------------------------- column helpers ---------------------------- *)
\* df[label] as the sequence of the column's values
Column(df, label) == [i \in 1..Len(df.rows) |-> df.rows[i].s[label]]

RECURSIVE SumSeq(_)
SumSeq(q) == IF q = <<>> THEN 0 ELSE Head(q) + SumSeq(Tail(q))

RECURSIVE MaxSeq(_)
MaxSeq(q) ==
  IF Len(q) = 1 THEN Head(q)
  ELSE LET m == MaxSeq(Tail(q)) IN IF Head(q) > m THEN Head(q) ELSE m

\* num/den rounded to the nearest integer, ties to the even one: what the
\* fixed-point formats (":.0f", ":.1f") do to a value that is exactly
\* representable at the tie (den > 0)
RoundHalfEven(num, den) ==
  LET q == num \div den
      r == num % den
  IN  IF 2 * r < den THEN q
      ELSE IF 2 * r > den THEN q + 1
      ELSE IF q % 2 = 0 THEN q ELSE q + 1

\* Series.mean() formatted with ":.1f": tenths; nan on an empty column
MeanTenths(q) == IF q = <<>> THEN NaN ELSE Num(RoundHalfEven(10 * SumSeq(q), Len(q)))

\* Series.max() formatted with ":.2f" (exact on these values); nan when empty
MaxOf(q) == IF q = <<>> THEN NaN ELSE Num(MaxSeq(q))

(* ------------------------------ loader --------------------------------- *)
\* contents of a file reference on storage
Absent     == [kind |-> "absent"]
Unreadable == [kind |-> "unreadable"]
Csv(cols, rows) == [kind |-> "csv", columns |-> cols, rows |-> rows]

KeyError(label) == [type |-> "KeyError", arg |-> label]
FileNotFoundError == [type |-> "FileNotFoundError", arg |-> ""]
PermissionError   == [type |-> "PermissionError", arg |-> ""]
ValueError        == [type |-> "ValueError", arg |-> ""]
IndexError        == [type |-> "IndexError", arg |-> ""]

\* pd.read_csv(filepath)
read_csv(content) ==
  CASE content.kind = "absent"     -> Raise(FileNotFoundError)
    [] content.kind = "unreadable" -> Raise(PermissionError)
    [] OTHER -> Ok(DataFrame(content.columns, content.rows))

\* pd.to_datetime on one cell (errors='raise'): a missing value becomes NaT
ParseTs(cell) == IF cell = "empty" THEN "NaT" ELSE "dt"

\* variant: pd.to_datetime(..., errors='coerce'), a bad cell becomes NaT
to_datetime_coerce(df) ==
  IF COLS.timestamp \notin df.columns THEN Raise(KeyError(COLS.timestamp))
  ELSE Ok(DataFrame(df.columns,
                    [i \in 1..Len(df.rows) |->
                       [ts |-> IF df.rows[i].ts = "ok" THEN "dt" ELSE "NaT",
                        s |-> df.rows[i].s]]))

\* df[COLS['timestamp']] = pd.to_datetime(df[COLS['timestamp']])
to_datetime(df) ==
  IF COLS.timestamp \notin df.columns THEN Raise(KeyError(COLS.timestamp))
  ELSE IF \E i \in 1..Len(df.rows) : df.rows[i].ts = "bad" THEN Raise(ValueError)
  ELSE Ok(DataFrame(df.columns,
                    [i \in 1..Len(df.rows) |->
                       [ts |-> ParseTs(df.rows[i].ts), s |-> df.rows[i].s]]))

\* the exceptions the loader turns into the None sentinel
Caught(exc) == exc.type = "FileNotFoundError"

\* body of load_data (without the cache): the table, None, or an exception
load_data_body(content) ==
  LET r == read_csv(content)
  IN  IF r.tag = "raise"
      THEN (IF Caught(r.exc) THEN None ELSE r)
      ELSE to_datetime(r.val)

(* --------------------------- key metrics ------------------------------- *)
\* variant: the sum divided by 3600 instead of 60
total_steam_3600(df) ==
  IF COLS.steam_flow \in df.columns
  THEN Num(RoundHalfEven(SumSeq(Column(df, COLS.steam_flow)), 3600))
  ELSE NA

\* f"{df[steam_flow].sum() / 60:.0f} kg", or "N/A" without the column
total_steam(df) ==
  IF COLS.steam_flow \in df.columns
  THEN Num(RoundHalfEven(SumSeq(Column(df, COLS.steam_flow)), 60))
  ELSE NA

\* f"{df[valve_out].mean():.1f} %", or "N/A" without the column
avg_valve(df) ==
  IF COLS.valve_out \in df.columns
  THEN MeanTenths(Column(df, COLS.valve_out))
  ELSE NA

\* variant: the valve mean read without the presence check
summarize_valve_unguarded(df) ==
  IF COLS.temp_pv \notin df.columns THEN Raise(KeyError(COLS.temp_pv))
  ELSE IF COLS.p2 \notin df.columns THEN Raise(KeyError(COLS.p2))
  ELSE IF COLS.valve_out \notin df.columns THEN Raise(KeyError(COLS.valve_out))
  ELSE Ok([avg_temp    |-> MeanTenths(Column(df, COLS.temp_pv)),
           max_p2      |-> MaxOf(Column(df, COLS.p2)),
           total_steam |-> total_steam(df),
           avg_valve   |-> avg_valve(df)])

\* the key metrics row of the script
summarize(df) ==
  IF COLS.temp_pv \notin df.columns THEN Raise(KeyError(COLS.temp_pv))
  ELSE IF COLS.p2 \notin df.columns THEN Raise(KeyError(COLS.p2))
  ELSE Ok([avg_temp    |-> MeanTenths(Column(df, COLS.temp_pv)),
           max_p2      |-> MaxOf(Column(df, COLS.p2)),
           total_steam |-> total_steam(df),
           avg_valve   |-> avg_valve(df)])

(* ----------------------------- composer -------------------------------- *)
Trace(df, label, name, dash, fill) ==
  [name |-> name, y |-> Column(df, label), dash |-> dash, fill |-> fill]

\* variant: optional traces left out even when their column is present
OptionalNever(df, label, name, dash, fill) == <<>>

\* a trace that is added only when its column is present
Optional(df, label, name, dash, fill) ==
  IF label \in df.columns THEN <<Trace(df, label, name, dash, fill)>> ELSE <<>>

\* variant: the valve trace guarded like an optional one
RequiredNoValve == <<COLS.timestamp, COLS.temp_sp, COLS.temp_pv, COLS.p2>>

\* the columns plot_dashboard reads unconditionally, in the order it reads them
Required == <<COLS.timestamp, COLS.temp_sp, COLS.temp_pv, COLS.p2, COLS.valve_out>>

MissingRequired(df) == {i \in 1..Len(Required) : Required[i] \notin df.columns}

Min(S) == CHOOSE x \in S : \A y \in S : x <= y

ValveRange == <<0, 105>>

plot_dashboard(df, plot_title) ==
  IF MissingRequired(df) # {}
  THEN Raise(KeyError(Required[Min(MissingRequired(df))]))
  ELSE Ok([title        |-> plot_title,
           shared_xaxes |-> TRUE,
           x            |-> [i \in 1..Len(df.rows) |-> df.rows[i].ts],
           rows  |-> << <<Trace(df, COLS.temp_sp, "Process Temp SP", "dot", FALSE),
                          Trace(df, COLS.temp_pv, "Process Temp", "solid", FALSE)>>,
                        Optional(df, COLS.p2_sp, "Pressure SP", "dot", FALSE)
                          \o Optional(df, COLS.p1, "Inlet P1", "solid", FALSE)
                          \o <<Trace(df, COLS.p2, "Outlet P2", "solid", TRUE)>>,
                        Optional(df, COLS.steam_flow, "Flow Rate", "solid", TRUE),
                        <<Trace(df, COLS.valve_out, "Valve %", "solid", TRUE)>> >>,
           ytitle |-> <<"Temp", "Bar", "kg/hr", "%">>,
           yrange |-> <<<<>>, <<>>, <<>>, ValveRange>>])

(* ------------------------------ script --------------------------------- *)
\* df[COLS['timestamp']].dt.date.iloc[0].strftime('%Y-%m-%d')
date_str(df) ==
  IF Len(df.rows) = 0 THEN Raise(IndexError)
  ELSE IF df.rows[1].ts = "NaT" THEN Raise(ValueError)
  ELSE Ok("date")

NoBanner == [shown |-> FALSE, path |-> ""]
\* variant: an error banner that does not name the file
BannerNoPath(path) == [shown |-> TRUE, path |-> ""]
Banner(path) == [shown |-> TRUE, path |-> path]
Idle == [tag |-> "idle"]

\* what one run of the script did: the calls it made in order, the error
\* banner, the metrics and the chart it displayed, and the exception that
\* ended it (Idle when it ran to its last line)
Page(calls, error, metrics, fig, exc) ==
  [calls |-> calls, error |-> error, metrics |-> metrics, fig |-> fig, exc |-> exc]

\* the main content of the script, from the result of load_data on
MainContent(selected_scenario, file_path, loaded) ==
  IF loaded.tag = "raise"
  THEN Page(<<"load_data">>, NoBanner, Idle, Idle, loaded)
  ELSE IF loaded.tag = "none"
  THEN Page(<<"load_data", "st.error">>, Banner(file_path), Idle, Idle, Idle)
  ELSE
    LET df == loaded.val
        d  == date_str(df)
        m  == summarize(df)
        g  == plot_dashboard(df, <<"Forensic Trace", selected_scenario>>)
    IN  IF d.tag = "raise" THEN Page(<<"load_data">>, NoBanner, Idle, Idle, d)
        ELSE IF m.tag = "raise"
        THEN Page(<<"load_data", "metrics">>, NoBanner, Idle, Idle, m)
        ELSE IF g.tag = "raise"
        THEN Page(<<"load_data", "metrics", "plot_dashboard">>, NoBanner, m, Idle, g)
        ELSE Page(<<"load_data", "metrics", "plot_dashboard", "st.plotly_chart">>,
                  NoBanner, m, g, Idle)

(* ------------------------------- state --------------------------------- *)
VARIABLES
  fs,          \* storage: contents of every file reference
  cache,       \* st.cache_data entries of load_data, keyed by filepath
  last,        \* the latest run of the script
  nRuns,       \* runs of the script so far
  nFsChanges,  \* rewrites of data files so far
  returned,    \* per file reference, the first value a load of it returned
  okReads,     \* per file reference, storage reads made while it was readable
  tbl,         \* pure-function check: the input table
  metrics,     \* pure-function check: result of the key metrics row
  chart        \* pure-function check: result of plot_dashboard

vars == <<fs, cache, last, nRuns, nFsChanges, returned, okReads, tbl, metrics, chart>>

appVars == <<fs, cache, last, nRuns, nFsChanges, returned, okReads>>
fnVars  == <<tbl, metrics, chart>>

Miss == [tag |-> "miss"]

\* rows used by the data files of the model
RowsGood  == << [ts |-> "ok", s |-> MkSample(80, 78, 600, 40, 7, 3, 3)],
                [ts |-> "ok", s |-> MkSample(80, 81, 30, 100, 6, 4, 3)] >>
RowsOne   == << [ts |-> "ok", s |-> MkSample(85, 84, 300, 0, 7, 2, 3)] >>
RowsBadTs == << [ts |-> "ok", s |-> MkSample(80, 78, 600, 40, 7, 3, 3)],
                [ts |-> "bad", s |-> MkSample(80, 81, 30, 100, 6, 4, 3)] >>
RowsNoTs  == << [ts |-> "empty", s |-> MkSample(80, 78, 600, 40, 7, 3, 3)] >>

\* the file contents the environment may put behind a file reference
FileContents ==
  { Absent, Unreadable,
    Csv(AllCols, RowsGood),
    Csv({COLS.timestamp, COLS.temp_sp, COLS.temp_pv, COLS.p2, COLS.valve_out}, RowsOne),
    Csv(AllCols \ {COLS.valve_out}, RowsGood),
    Csv(AllCols \ {COLS.p2}, RowsGood),
    Csv(AllCols, RowsBadTs),
    Csv(AllCols \ {COLS.timestamp}, RowsOne),
    Csv(AllCols, <<>>),
    Csv(AllCols, RowsNoTs) }

Readable(content) == content.kind = "csv"

\* tables as load_data returns them: a parsed timestamp column, any subset
\* of the signal columns
Tables ==
  { DataFrame(c \cup {COLS.timestamp}, r) :
      c \in SUBSET SignalCols, r \in SeqsUpTo(Row(ParsedTs), MaxRows) }

NoRun == Page(<<>>, NoBanner, Idle, Idle, Idle)
  @@ [scenario |-> "", file_path |-> "", read |-> FALSE, load |-> Idle]

Init ==
  /\ fs = [f \in FilePaths |-> Absent]
  /\ cache = [f \in FilePaths |-> Miss]
  /\ last = NoRun
  /\ nRuns = 0
  /\ nFsChanges = 0
  /\ returned = [f \in FilePaths |-> Miss]
  /\ okReads = [f \in FilePaths |-> 0]
  /\ tbl = DataFrame({COLS.timestamp}, <<>>)
  /\ metrics = Idle
  /\ chart = Idle

(* ------------------------------ actions -------------------------------- *)
\* variant: a cache that never serves a call from an entry
CacheHitNever(entry) == FALSE

\* @st.cache_data: whether a call with this argument is served from the cache
CacheHit(entry) == entry.tag # "miss"

\* variant: a cache that keeps tables only, not the None sentinel
CacheStoreTablesOnly(entry, r) == IF r.tag = "ok" THEN r ELSE entry

\* @st.cache_data: the entry kept after the body produced r (an exception
\* leaves the entry as it was)
CacheStore(entry, r) == IF r.tag = "raise" THEN entry ELSE r

\* one run of the script for the selected scenario
Run(selected_scenario) ==
  /\ nRuns < MaxRuns
  /\ LET file_path == DATA_FILES[selected_scenario]
         hit    == CacheHit(cache[file_path])
         loaded == IF hit THEN cache[file_path] ELSE load_data_body(fs[file_path])
     IN  /\ cache' = IF hit THEN cache
                     ELSE [cache EXCEPT ![file_path] = CacheStore(@, loaded)]
         /\ last' = MainContent(selected_scenario, file_path, loaded)
                      @@ [scenario |-> selected_scenario, file_path |-> file_path,
                          read |-> ~hit, load |-> loaded]
         /\ returned' = IF returned[file_path] = Miss /\ loaded.tag # "raise"
                        THEN [returned EXCEPT ![file_path] = loaded]
                        ELSE returned
         /\ okReads' = IF ~hit /\ Readable(fs[file_path])
                       THEN [okReads EXCEPT ![file_path] = @ + 1]
                       ELSE okReads
  /\ nRuns' = nRuns + 1
  /\ UNCHANGED <<fs, nFsChanges>>
  /\ UNCHANGED fnVars

\* the environment replaces the contents behind a file reference
WriteFile(f, content) ==
  /\ nFsChanges < MaxFsChanges
  /\ content # fs[f]
  /\ fs' = [fs EXCEPT ![f] = content]
  /\ nFsChanges' = nFsChanges + 1
  /\ UNCHANGED <<cache, last, nRuns, returned, okReads>>
  /\ UNCHANGED fnVars

Next ==
  \/ \E s \in Scenarios : Run(s)
  \/ \E f \in FilePaths, c \in FileContents : WriteFile(f, c)

Spec == Init /\ [][Next]_vars

(* ------------------- the functions on their own ------------------------ *)
FnInit ==
  /\ fs = [f \in FilePaths |-> Absent]
  /\ cache = [f \in FilePaths |-> Miss]
  /\ last = NoRun
  /\ nRuns = 0
  /\ nFsChanges = 0
  /\ returned = [f \in FilePaths |-> Miss]
  /\ okReads = [f \in FilePaths |-> 0]
  /\ tbl \in Tables
  /\ metrics = Idle
  /\ chart = Idle

Summarize ==
  /\ metrics = Idle
  /\ metrics' = summarize(tbl)
  /\ UNCHANGED <<tbl, chart>>
  /\ UNCHANGED appVars

Compose ==
  /\ chart = Idle
  /\ chart' = plot_dashboard(tbl, <<"Forensic Trace", "">>)
  /\ UNCHANGED <<tbl, metrics>>
  /\ UNCHANGED appVars

FnNext == Summarize \/ Compose

FnSpec == FnInit /\ [][FnNext]_vars

(* ============================== claims ================================= *)
\* a step that is one run of the script
RunStep == nRuns' = nRuns + 1

HasRun == nRuns > 0

(* C1: a load that reads a file reference which does not resolve to a
   readable resource (absent, or present but unreadable) returns the
   not-found sentinel and raises nothing. *)
C1_UnresolvedGivesNotFound ==
  [][(RunStep /\ last'.read /\ ~Readable(fs[last'.file_path]))
       => last'.load = [tag |-> "none"]]_vars

(* C2 as stated: every resolvable (present and readable) file reference is
   read from storage at most once in a process. *)
C2_ReadAtMostOnce == \A f \in FilePaths : okReads[f] <= 1

(* C2 amended: once a load of a file reference has returned a table, every
   later load of that reference returns a table equal to the first one
   without another storage read. *)
C2_TableReadOnce ==
  [][(RunStep /\ returned[last'.file_path].tag = "ok")
       => /\ ~last'.read
          /\ last'.load = returned[last'.file_path]
          /\ okReads' = okReads]_vars

C2_Witness ==
  /\ HasRun
  /\ last.load.tag = "ok"
  /\ ~last.read
  /\ okReads[last.file_path] = 1

(* C3: no run of the script ends with an exception of the failures the
   loader, the metrics row or the composer produce (a malformed timestamp
   is a ValueError, a missing column a KeyError) escaping the script. *)
C3_NoEscapingFailure ==
  ~(last.exc.tag = "raise" /\ last.exc.exc.type \in {"ValueError", "KeyError"})

(* C4: in a run whose load returned None the error banner names the file
   reference and neither the metrics row nor plot_dashboard nor
   st.plotly_chart is called; in a run whose load returned a table no error
   banner is shown, the calls are made in the order metrics, plot_dashboard,
   st.plotly_chart (a later one never without the earlier ones), and a run
   that reaches its last line displays the metrics and the chart computed
   from the loaded table. *)
C4_Pipeline == <<"load_data", "metrics", "plot_dashboard", "st.plotly_chart">>

C4_OrchestratorOrder ==
  HasRun =>
    /\ last.load.tag = "none" =>
         /\ last.error = [shown |-> TRUE, path |-> DATA_FILES[last.scenario]]
         /\ last.calls = <<"load_data", "st.error">>
         /\ last.metrics.tag = "idle"
         /\ last.fig.tag = "idle"
    /\ last.load.tag = "ok" =>
         /\ ~last.error.shown
         /\ Len(last.calls) <= 4
         /\ last.calls = SubSeq(C4_Pipeline, 1, Len(last.calls))
         /\ last.exc.tag = "idle" =>
              /\ last.calls = C4_Pipeline
              /\ last.metrics = summarize(last.load.val)
              /\ last.fig.tag = "ok"
              /\ last.fig.val.x = [i \in 1..Len(last.load.val.rows) |->
                                     last.load.val.rows[i].ts]

C4_Witness ==
  /\ HasRun
  /\ last.load.tag = "ok"
  /\ last.calls = C4_Pipeline
  /\ last.fig.tag = "ok"

(* C5: plot_dashboard on a table that lacks temperature setpoint,
   temperature actual, outlet pressure or valve opening raises KeyError for
   a missing one and returns no chart; the metrics row on a table that lacks
   temperature actual or outlet pressure raises KeyError; neither yields the
   None sentinel of a missing file. *)
C5_MissingMandatoryIsFatal ==
  /\ (chart.tag # "idle" /\
        ~({"Process Temp SP", "Process Temp", "Outlet Steam Pressure",
           "QualSteam Valve Opening"} \subseteq tbl.columns))
       => /\ chart.tag = "raise"
          /\ chart.exc.type = "KeyError"
          /\ chart.exc.arg \notin tbl.columns
  /\ (metrics.tag # "idle" /\
        ~({"Process Temp", "Outlet Steam Pressure"} \subseteq tbl.columns))
       => /\ metrics.tag = "raise"
          /\ metrics.exc.type = "KeyError"
          /\ metrics.exc.arg \notin tbl.columns

C5_Witness ==
  /\ chart.tag = "raise"
  /\ metrics.tag = "raise"
  /\ "Outlet Steam Pressure" \notin tbl.columns
  /\ "Process Temp" \in tbl.columns

(* C6: on a table with all mandatory columns plot_dashboard builds 4 rows
   on one shared x-axis whose series are, in order, [temperature setpoint,
   temperature actual], [pressure setpoint if present, inlet pressure if
   present, outlet pressure], [flow if present], [valve]; the pressure row
   is never empty and the valve row's y range is 0..105. *)
C6_Names(row) == [i \in 1..Len(row) |-> <<row[i].name, row[i].y>>]

C6_If(label, name) ==
  IF label \in tbl.columns
  THEN << <<name, [i \in 1..Len(tbl.rows) |-> tbl.rows[i].s[label]]>> >>
  ELSE <<>>

C6_FourPanels ==
  (chart.tag # "idle" /\
     {"Process Temp SP", "Process Temp", "Outlet Steam Pressure",
      "QualSteam Valve Opening"} \subseteq tbl.columns)
    => /\ chart.tag = "ok"
       /\ Len(chart.val.rows) = 4
       /\ chart.val.shared_xaxes
       /\ C6_Names(chart.val.rows[1]) =
            C6_If("Process Temp SP", "Process Temp SP")
              \o C6_If("Process Temp", "Process Temp")
       /\ C6_Names(chart.val.rows[2]) =
            C6_If("Pressure SP", "Pressure SP")
              \o C6_If("Inlet Steam Pressure", "Inlet P1")
              \o C6_If("Outlet Steam Pressure", "Outlet P2")
       /\ C6_Names(chart.val.rows[3]) = C6_If("Steam Flow Rate", "Flow Rate")
       /\ C6_Names(chart.val.rows[4]) = C6_If("QualSteam Valve Opening", "Valve %")
       /\ Len(chart.val.rows[2]) >= 1
       /\ chart.val.yrange[4] = <<0, 105>>

C6_Witness ==
  /\ chart.tag = "ok"
  /\ <<Len(chart.val.rows[1]), Len(chart.val.rows[2]),
       Len(chart.val.rows[3]), Len(chart.val.rows[4])>> = <<2, 3, 1, 1>>
  /\ Len(tbl.rows) = 1
  /\ tbl.rows[1].s["QualSteam Valve Opening"] = 40

(* C7: on a table with temperature actual and outlet pressure the metrics
   row raises nothing; without the steam-flow column the total steam is
   "N/A", without the valve column the average valve opening is "N/A", and
   the other metrics are computed all the same. *)
C7_OptionalDegrades ==
  (metrics.tag # "idle" /\
     {"Process Temp", "Outlet Steam Pressure"} \subseteq tbl.columns)
    => /\ metrics.tag = "ok"
       /\ metrics.val.total_steam.kind = "N/A" <=> "Steam Flow Rate" \notin tbl.columns
       /\ metrics.val.avg_valve.kind = "N/A" <=> "QualSteam Valve Opening" \notin tbl.columns
       /\ metrics.val.avg_temp.kind # "N/A"
       /\ metrics.val.max_p2.kind # "N/A"
       /\ Len(tbl.rows) > 0 =>
            /\ metrics.val.avg_temp.kind = "num"
            /\ metrics.val.max_p2.kind = "num"
            /\ \E i \in 1..Len(tbl.rows) :
                 metrics.val.max_p2.val = tbl.rows[i].s["Outlet Steam Pressure"]

C7_Witness ==
  /\ metrics.tag = "ok"
  /\ "Steam Flow Rate" \notin tbl.columns
  /\ "QualSteam Valve Opening" \notin tbl.columns
  /\ metrics.val.total_steam.kind = "N/A"
  /\ metrics.val.avg_temp.kind = "num"

(* C8: a load that reads a file with a timestamp that fails to parse
   raises and returns no table, and every table a load returns has a parsed
   timestamp (a datetime, NaT for a missing value) in every row. *)
C8_MalformedTimestampRejected ==
  [][RunStep =>
       /\ (last'.read /\ Readable(fs[last'.file_path]) /\
             \E i \in 1..Len(fs[last'.file_path].rows) :
                fs[last'.file_path].rows[i].ts = "bad")
            => /\ last'.load.tag = "raise"
               /\ cache'[last'.file_path].tag = "miss"
       /\ last'.load.tag = "ok"
            => \A i \in 1..Len(last'.load.val.rows) :
                 last'.load.val.rows[i].ts \in {"dt", "NaT"}]_vars

C8_Witness ==
  /\ HasRun
  /\ last.read
  /\ last.load.tag = "raise"
  /\ last.load.exc.type = "ValueError"
  /\ \E i \in 1..Len(fs[last.file_path].rows) : fs[last.file_path].rows[i].ts = "bad"

(* C9 as stated: with the steam-flow column present the reported total
   steam is the sum of the steam-flow values divided by 60. *)
C9_Flow == [i \in 1..Len(tbl.rows) |-> tbl.rows[i].s["Steam Flow Rate"]]

C9_TotalIsSumOver60 ==
  (metrics.tag = "ok" /\ "Steam Flow Rate" \in tbl.columns)
    => /\ metrics.val.total_steam.kind = "num"
       /\ 60 * metrics.val.total_steam.val = SumSeq(C9_Flow)

(* C9 amended: with the steam-flow column present the reported total steam
   is the sum of the steam-flow values divided by 60 and rounded to the
   nearest whole number (a tie to the even one); a sum of 600 gives 10. *)
C9_TotalIsRoundedSumOver60 ==
  (metrics.tag = "ok" /\ "Steam Flow Rate" \in tbl.columns)
    => LET t == metrics.val.total_steam.val
           d == 60 * t - SumSeq(C9_Flow)
       IN  /\ metrics.val.total_steam.kind = "num"
           /\ d >= -30 /\ d <= 30
           /\ (d = 30 \/ d = -30) => t % 2 = 0
           /\ SumSeq(C9_Flow) = 600 => t = 10

C9_Witness ==
  /\ metrics.tag = "ok"
  /\ "Steam Flow Rate" \in tbl.columns
  /\ Len(tbl.rows) = 2
  /\ SumSeq(C9_Flow) = 600
  /\ metrics.val.total_steam = [kind |-> "num", val |-> 10]

(* C10: once a load of a file reference has returned None, every later load
   of it returns None without a storage read, whatever the file has become;
   a load that raised leaves no cache entry, and a load of a reference for
   which no load has returned yet reads storage. *)
C10_NotFoundIsCached ==
  [][RunStep =>
       /\ returned[last'.file_path].tag = "none"
            => /\ last'.load = [tag |-> "none"]
               /\ ~last'.read
       /\ last'.load.tag = "raise" => cache'[last'.file_path].tag = "miss"
       /\ returned[last'.file_path].tag = "miss" => last'.read]_vars

C10_Witness ==
  /\ HasRun
  /\ last.load.tag = "none"
  /\ ~last.read
  /\ Readable(fs[last.file_path])

====
